---- MODULE Spec2Model ----
(***************************************************************************)
(* Model of tmalign_parser.py: the serial TM-align driver (main,           *)
(* run_tm_align) and the parser/aggregator (parse_and_save).               *)
(*                                                                         *)
(* A text is a sequence of tokens.  A token is one character ("*", " ",    *)
(* "/", "0", ...) or one of the literal strings the regular expressions    *)
(* of parse_and_save look for ("TM-align", "Name of Chain_2:", ...), kept  *)
(* whole.  A file name is a token sequence too: <<"a", ".pdb">>.           *)
(* A float is an integer number of 1/Scale units.                          *)
(***************************************************************************)
EXTENDS Integers, Sequences, FiniteSets, TLC

\* ------------------------------------------------------------------ bounds
MaxQueries == 2
MaxTemplates == 2
MaxPairs == 4
MaxTextLen == 8
MaxScoreLen == 3

\* ------------------------------------------------------- literals of the code
KwTMalign == "TM-align"
KwName2 == "Name of Chain_2:"
KwLen1 == "Length of Chain_1:"
KwLen2 == "Length of Chain_2:"
KwRMSD == "RMSD="
KwSeqId == "Seq_ID=n_identical/n_aligned="
KwTMscore == "TM-score="
KwIfNorm1 == "(if normalized by length of Chain_1,"
KwIfNorm2 == "(if normalized by length of Chain_2,"

Digits == {"0", "1", "2", "3", "4", "5", "6", "7", "8", "9"}

DigitVal(c) ==
    CASE c = "0" -> 0 [] c = "1" -> 1 [] c = "2" -> 2 [] c = "3" -> 3
      [] c = "4" -> 4 [] c = "5" -> 5 [] c = "6" -> 6 [] c = "7" -> 7
      [] c = "8" -> 8 [] c = "9" -> 9

\* The character classes of the regular expressions: \s, ., \*, \d, [\d\.],
\* [^\s(], and "." short of a closing parenthesis (the lazy .*? before \)).
InClass(cls, c) ==
    CASE cls = "space" -> c \in {" ", "\n"}
      [] cls = "star" -> c = "*"
      [] cls = "dot" -> c # "\n"
      [] cls = "dotNoStar" -> c \notin {"\n", "*"}
      [] cls = "dotNoClose" -> c \notin {"\n", ")"}
      [] cls = "digit" -> c \in Digits
      [] cls = "num" -> c \in Digits \cup {"."}
      [] cls = "name" -> c \notin {" ", "\n", "(", KwIfNorm1, KwIfNorm2}

\* The first position at or after i that is past the end of the text or holds a
\* token outside the class: where a greedy cls* (or a lazy one that must stop
\* at the first token outside the class) ends.
RECURSIVE SkipWhile(_, _, _)
SkipWhile(text, i, cls) ==
    IF i > Len(text) THEN i
    ELSE IF ~InClass(cls, text[i]) THEN i
    ELSE SkipWhile(text, i + 1, cls)

\* ------------------------------------------------------------ block splitter
\* r'\*+\s*TM-align.*?\*+' matched at position i: the position after the match,
\* or 0 when it does not match there.
BannerEnd(text, i) ==
    IF i > Len(text) \/ text[i] # "*" THEN 0
    ELSE LET a == SkipWhile(text, i, "star")
             b == SkipWhile(text, a, "space")
         IN  IF b > Len(text) \/ text[b] # KwTMalign THEN 0
             ELSE LET c == SkipWhile(text, b + 1, "dotNoStar")
                  IN  IF c > Len(text) \/ text[c] # "*" THEN 0
                      ELSE SkipWhile(text, c, "star")

MinOf(S) == CHOOSE x \in S : \A y \in S : x <= y

\* re.split on the text from position pos on: the segments between the
\* successive leftmost matches, each search resuming where the last match ended.
RECURSIVE ReSplitFrom(_, _)
ReSplitFrom(text, pos) ==
    LET starts == { j \in pos..Len(text) : BannerEnd(text, j) # 0 }
    IN  IF starts = {} THEN << SubSeq(text, pos, Len(text)) >>
        ELSE << SubSeq(text, pos, MinOf(starts) - 1) >>
             \o ReSplitFrom(text, BannerEnd(text, MinOf(starts)))

ReSplit(text) == ReSplitFrom(text, 1)

\* A faulty variant: blocks, the first segment kept.
BlocksAll(text) == ReSplit(text)

\* blocks[1:]
Blocks(text) == Tail(ReSplit(text))

\* ------------------------------------------------------------ field extractor
\* kw\s*(cls+) matched at position i: the span of the capture, b = e if it
\* does not match there.
CaptureSpan(block, i, kw, cls) ==
    IF block[i] # kw THEN << i, i >>
    ELSE LET b == SkipWhile(block, i + 1, "space")
         IN  << b, SkipWhile(block, b, cls) >>

\* re.search(kw \s* (cls+)) : the capture of the leftmost match, '' if none.
Capture(block, kw, cls) ==
    LET hits == { i \in 1..Len(block) :
                    CaptureSpan(block, i, kw, cls)[2] > CaptureSpan(block, i, kw, cls)[1] }
    IN  IF hits = {} THEN << >>
        ELSE LET span == CaptureSpan(block, MinOf(hits), kw, cls)
             IN  SubSeq(block, span[1], span[2] - 1)

\* TM-score=\s*([\d\.]+)\s*\(if normalized by length of Chain_N,.*?\) matched
\* at position i: the span of the capture, b = e if it does not match there.
ScoreSpan(block, i, ifnorm) ==
    IF block[i] # KwTMscore THEN << i, i >>
    ELSE LET b == SkipWhile(block, i + 1, "space")
             e == SkipWhile(block, b, "num")
             f == SkipWhile(block, e, "space")
             g == SkipWhile(block, f + 1, "dotNoClose")
         IN  IF /\ e > b
                /\ f <= Len(block)
                /\ block[f] = ifnorm
                /\ g <= Len(block)
                /\ block[g] = ")"
             THEN << b, e >>
             ELSE << i, i >>

\* re.search of that pattern: the capture of the leftmost match, '' if none.
Score(block, ifnorm) ==
    LET hits == { i \in 1..Len(block) :
                    ScoreSpan(block, i, ifnorm)[2] > ScoreSpan(block, i, ifnorm)[1] }
    IN  IF hits = {} THEN << >>
        ELSE LET span == ScoreSpan(block, MinOf(hits), ifnorm)
             IN  SubSeq(block, span[1], span[2] - 1)

\* ------------------------------------------------------------------ floats
ScaleDigits == MaxScoreLen

RECURSIVE Pow10(_)
Pow10(n) == IF n = 0 THEN 1 ELSE 10 * Pow10(n - 1)

Scale == Pow10(ScaleDigits)

RECURSIVE DigitsVal(_)
DigitsVal(ds) ==
    IF ds = << >> THEN 0
    ELSE 10 * DigitsVal(SubSeq(ds, 1, Len(ds) - 1)) + DigitVal(ds[Len(ds)])

\* float(s) raises ValueError for a string of digits and dots unless it has at
\* least one digit and at most one dot.
FloatOk(s) ==
    /\ Cardinality({i \in 1..Len(s) : s[i] = "."}) <= 1
    /\ \E i \in 1..Len(s) : s[i] \in Digits

\* float(s) for a string float accepts.
FloatOf(s) ==
    LET d == SkipWhile(s, 1, "digit")
        ip == SubSeq(s, 1, d - 1)
        fp == SubSeq(s, d + 1, Len(s))
    IN  DigitsVal(ip) * Scale + DigitsVal(fp) * Pow10(ScaleDigits - Len(fp))

score_threshold == FloatOf(<< "0", ".", "6" >>)

Max(a, b) == IF b > a THEN b ELSE a

\* try: chosen = max(float(score1) if score1 else 0.0,
\*                   float(score2) if score2 else 0.0)
\* except: chosen = 0.0
Chosen(score1, score2) ==
    IF \/ score1 # << >> /\ ~FloatOk(score1)
       \/ score2 # << >> /\ ~FloatOk(score2)
    THEN 0
    ELSE Max(IF score1 # << >> THEN FloatOf(score1) ELSE 0,
             IF score2 # << >> THEN FloatOf(score2) ELSE 0)

\* ------------------------------------------------------------------- paths
QStems == << "qa", "qb", "qc", "qd" >>
TStems == << "ta", "tb", "tc", "td" >>

\* An entry of glob.glob('q/*.pdb'), of glob.glob('t/*.pdb').
QueryPath(q) == << "q", "/", QStems[q], ".pdb" >>
TemplPath(t) == << "t", "/", TStems[t], ".pdb" >>

\* os.path.basename: what follows the last "/".
RECURSIVE Basename(_)
Basename(path) ==
    IF path = << >> THEN << >>
    ELSE IF path[Len(path)] = "/" THEN << >>
    ELSE Append(Basename(SubSeq(path, 1, Len(path) - 1)), path[Len(path)])

\* os.path.splitext(name)[0]: the name without its last extension.
SplitExt(name) ==
    IF Len(name) > 1 /\ name[Len(name)] \in {".pdb", ".aln"}
    THEN SubSeq(name, 1, Len(name) - 1)
    ELSE name

\* The per-query combined file 'c-tm/all/<stem>.aln' the cat of main writes.
AlnPath(q) ==
    << "c-tm", "/", "all", "/" >> \o SplitExt(Basename(QueryPath(q))) \o << ".aln" >>

\* --------------------------------------------------------- the external tool
BannerText ==
    << " ", "*", "*", "\n",
       " ", "*", " ", KwTMalign, " ", "(", "Version", ")", " ", "*", "\n",
       " ", "*", "*", "\n", "\n" >>

\* TM-align echoes the two paths it was invoked with.
NamesText(q, t) ==
    << "Name of Chain_1:", " " >> \o QueryPath(q) \o << "\n" >>
    \o << KwName2, " " >> \o TemplPath(t) \o << "\n" >>

ScoresText(s1, s2) ==
    << KwLen1, " ", "9", "0", " ", "residues", "\n",
       KwLen2, " ", "8", "0", " ", "residues", "\n", "\n",
       "Aligned length=", " ", "7", "0", ",", " ",
       KwRMSD, " ", "2", ".", "5", ",", " ",
       KwSeqId, " ", "0", ".", "3", "\n",
       KwTMscore, " " >> \o s1 \o << " ", KwIfNorm1, " ", "d0", ")", "\n",
       KwTMscore, " " >> \o s2 \o << " ", KwIfNorm2, " ", "d0", ")", "\n" >>

\* The (TM1, TM2) values the tool reports in this model: at the threshold,
\* above it by TM2, and below it.
ScorePairs ==
    { << << "0", ".", "6" >>, << "0", ".", "5" >> >>,
      << << "0", ".", "5" >>, << "0", ".", "7" >> >>,
      << << "0", ".", "5" >>, << "0", ".", "5" >> >> }

\* What 'TMalign q t > outfile' leaves in outfile when the tool succeeds.
OkOutputs(q, t) ==
    { BannerText \o NamesText(q, t) \o ScoresText(sp[1], sp[2]) : sp \in ScorePairs }

\* ... and when it fails: the shell creates the file all the same; it is empty
\* (no executable, an error before any output) or cut short.
FailOutputs(q, t) == { << >>, BannerText \o NamesText(q, t) }

\* ------------------------------------------------------------------- tables
\* The loop body of lines 74-102: one record per block.
Extract(basename, block) ==
    LET score1 == Score(block, KwIfNorm1)
        score2 == Score(block, KwIfNorm2)
    IN  [ query |-> basename \o << ".pdb" >>,
          template |-> Capture(block, KwName2, "name") \o << ".pdb" >>,
          qlen |-> Capture(block, KwLen1, "digit"),
          tlen |-> Capture(block, KwLen2, "digit"),
          RMSD |-> Capture(block, KwRMSD, "num"),
          ident |-> Capture(block, KwSeqId, "num"),
          TM1 |-> score1,
          TM2 |-> score2,
          chosen |-> Chosen(score1, score2) ]

Records(basename, text) ==
    LET blocks == Blocks(text)
    IN  [ i \in 1..Len(blocks) |-> Extract(basename, blocks[i]) ]

Perms(n) == { p \in [1..n -> 1..n] : \A i, j \in 1..n : p[i] = p[j] => i = j }

Descending(df) ==
    \A i \in 1..(Len(df) - 1) : df[i].chosen >= df[i + 1].chosen

Ascending(df) ==
    \A i \in 1..(Len(df) - 1) : df[i].chosen <= df[i + 1].chosen

\* A faulty variant: ascending=True.
SortValuesAscending(df) ==
    { s \in { [ i \in 1..Len(df) |-> df[p[i]] ] : p \in Perms(Len(df)) } :
        Ascending(s) }

\* df.sort_values('chosen', ascending=False): kind defaults to 'quicksort',
\* which is not a stable sort, so rows of equal chosen come in any order.
SortValues(df) ==
    { s \in { [ i \in 1..Len(df) |-> df[p[i]] ] : p \in Perms(Len(df)) } :
        Descending(s) }

RECURSIVE SelectGE(_, _)
SelectGE(df, t) ==
    IF df = << >> THEN << >>
    ELSE IF df[1].chosen >= t THEN << df[1] >> \o SelectGE(Tail(df), t)
    ELSE SelectGE(Tail(df), t)

\* A faulty variant: chosen > score_threshold.
StackOfStrict(df_sorted) == SelectGE(df_sorted, score_threshold + 1)

\* df_sorted[df_sorted['chosen'] >= score_threshold]
StackOf(df_sorted) == SelectGE(df_sorted, score_threshold)

\* d[k] = v on a dict, which keeps its keys in insertion order.
DictSet(d, k, v) ==
    IF \E i \in 1..Len(d) : d[i][1] = k
    THEN [ i \in 1..Len(d) |-> IF d[i][1] = k THEN << k, v >> ELSE d[i] ]
    ELSE Append(d, << k, v >>)

\* pd.concat(frames, ignore_index=True) of a non-empty list.
RECURSIVE ConcatFrames(_)
ConcatFrames(frames) ==
    IF frames = << >> THEN << >>
    ELSE frames[1] \o ConcatFrames(Tail(frames))

\* -------------------------------------------------------------------- state
VARIABLES
    q_dir,          \* the query structures in q/ (indices into QStems)
    t_dir,          \* the template structures in t/ (indices into TStems)
    pc,             \* "main", "parse", "done", "failed"
    cur,            \* main's loop variable: the query being aligned, 0 if none
    tdone,          \* the templates run_tm_align has gone through for cur
    pairOut,        \* c-tm/<q>/<q>_<t>.aln : <<q, t>> -> text
    failed,         \* the pairs whose TMalign invocation failed
    combined,       \* c-tm/all/<q>.aln : q -> text
    parsed,         \* the files parse_and_save has gone through, in order
    tabs,           \* c-tm/all_tab/<q>.tab : q -> table
    sorteds,        \* c-tm/all_tab_sorted/<q>_sorted.tab : q -> table
    stacks,         \* the value of stack in the iteration of file q
    stack_files,    \* tm-stacks/<q>.tab : q -> table
    all_summary,    \* the list all_summary
    stack_counts,   \* the dict stack_counts, as its items in insertion order
    results         \* the two global files, once written

vars ==
    << q_dir, t_dir, pc, cur, tdone, pairOut, failed, combined, parsed, tabs,
       sorteds, stacks, stack_files, all_summary, stack_counts, results >>

parseVars ==
    << parsed, tabs, sorteds, stacks, stack_files, all_summary, stack_counts,
       results >>

NoFiles == [ x \in {} |-> << >> ]

Range(f) == { f[x] : x \in DOMAIN f }

\* ---------------------------------------------------------------- invoker
\* The directories as the run finds them; nothing has run yet.
Init ==
    /\ q_dir \in { 1..n : n \in 0..MaxQueries }
    /\ t_dir \in { 1..n : n \in 0..MaxTemplates }
    /\ Cardinality(q_dir) * Cardinality(t_dir) <= MaxPairs
    /\ pc = "main"
    /\ cur = 0
    /\ tdone = {}
    /\ pairOut = NoFiles
    /\ failed = {}
    /\ combined = NoFiles
    /\ parsed = << >>
    /\ tabs = NoFiles
    /\ sorteds = NoFiles
    /\ stacks = NoFiles
    /\ stack_files = NoFiles
    /\ all_summary = << >>
    /\ stack_counts = << >>
    /\ results = << >>

\* for query in glob.glob('q/*.pdb'): the next query, in whatever order glob
\* lists them; run_tm_align creates its output directory.
NextQuery(q) ==
    /\ pc = "main"
    /\ cur = 0
    /\ q \in q_dir \ DOMAIN combined
    /\ cur' = q
    /\ tdone' = {}
    /\ UNCHANGED << q_dir, t_dir, pc, pairOut, failed, combined >>
    /\ UNCHANGED parseVars

\* A faulty variant: the exit status is checked and a failure ends the run.
InvokeChecked(q, t) ==
    /\ pc = "main"
    /\ cur = q
    /\ t \in t_dir \ tdone
    /\ \/ /\ \E out \in OkOutputs(q, t) : pairOut' = (<< q, t >> :> out) @@ pairOut
          /\ tdone' = tdone \cup {t}
          /\ UNCHANGED << pc, failed >>
       \/ /\ \E out \in FailOutputs(q, t) : pairOut' = (<< q, t >> :> out) @@ pairOut
          /\ failed' = failed \cup {<< q, t >>}
          /\ pc' = "failed"
          /\ UNCHANGED tdone
    /\ UNCHANGED << q_dir, t_dir, cur, combined >>
    /\ UNCHANGED parseVars

\* One pass of the loop of run_tm_align: os.system("TMalign q t > outfile").
\* The exit status is not looked at.
Invoke(q, t) ==
    /\ pc = "main"
    /\ cur = q
    /\ t \in t_dir \ tdone
    /\ \/ /\ \E out \in OkOutputs(q, t) : pairOut' = (<< q, t >> :> out) @@ pairOut
          /\ UNCHANGED failed
       \/ /\ \E out \in FailOutputs(q, t) : pairOut' = (<< q, t >> :> out) @@ pairOut
          /\ failed' = failed \cup {<< q, t >>}
    /\ tdone' = tdone \cup {t}
    /\ UNCHANGED << q_dir, t_dir, pc, cur, combined >>
    /\ UNCHANGED parseVars

\* The shell expands c-tm/<q>/*.aln to the files there, sorted by name.
RECURSIVE CatFiles(_, _)
CatFiles(q, ts) ==
    IF ts = {} THEN << >>
    ELSE LET t == CHOOSE x \in ts : \A y \in ts : x <= y
         IN  pairOut[<< q, t >>] \o CatFiles(q, ts \ {t})

\* A faulty variant: the cat does not wait for run_tm_align to return.
CatEarly(q) ==
    /\ pc = "main"
    /\ cur = q
    /\ combined' = (q :> CatFiles(q, { t \in t_dir : << q, t >> \in DOMAIN pairOut })) @@ combined
    /\ cur' = 0
    /\ tdone' = {}
    /\ UNCHANGED << q_dir, t_dir, pc, pairOut, failed >>
    /\ UNCHANGED parseVars

\* os.system("cat c-tm/<q>/*.aln > c-tm/all/<q>.aln"), once run_tm_align has
\* returned; with no file to expand to, cat fails and the redirection leaves
\* an empty file.
Cat(q) ==
    /\ pc = "main"
    /\ cur = q
    /\ tdone = t_dir
    /\ combined' = (q :> CatFiles(q, { t \in t_dir : << q, t >> \in DOMAIN pairOut })) @@ combined
    /\ cur' = 0
    /\ tdone' = {}
    /\ UNCHANGED << q_dir, t_dir, pc, pairOut, failed >>
    /\ UNCHANGED parseVars

\* main calls parse_and_save once the loop over the queries is over.
CallParse ==
    /\ pc = "main"
    /\ cur = 0
    /\ DOMAIN combined = q_dir
    /\ pc' = "parse"
    /\ UNCHANGED << q_dir, t_dir, cur, tdone, pairOut, failed, combined >>
    /\ UNCHANGED parseVars

\* ------------------------------------------------------- parser / aggregator
\* A faulty variant: the count recorded only under "if not stack.empty".
CountsAfterNonEmpty(counts, basename, stack) ==
    IF stack = << >> THEN counts ELSE DictSet(counts, basename, Len(stack))

\* stack_counts[basename] = len(stack)
CountsAfter(counts, basename, stack) == DictSet(counts, basename, Len(stack))

\* One pass of the loop over glob.glob('c-tm/all/*.aln'), lines 66-119, for the
\* file of query q, in whatever order glob lists the files.
ParseFile(q) ==
    /\ pc = "parse"
    /\ q \in DOMAIN combined \ Range(parsed)
    /\ LET alnfile == AlnPath(q)
           basename == SplitExt(Basename(alnfile))
           text == combined[q]
       IN  \E df \in { Records(basename, text) } :
           \E df_sorted \in SortValues(df) :
           \E stack \in { StackOf(df_sorted) } :
               /\ tabs' = (q :> df) @@ tabs
               /\ sorteds' = (q :> df_sorted) @@ sorteds
               /\ all_summary' = Append(all_summary, df_sorted)
               /\ stacks' = (q :> stack) @@ stacks
               /\ stack_counts' = CountsAfter(stack_counts, basename, stack)
               /\ stack_files' =
                      IF stack # << >> THEN (q :> stack) @@ stack_files
                      ELSE stack_files
    /\ parsed' = Append(parsed, q)
    /\ UNCHANGED << q_dir, t_dir, pc, cur, tdone, pairOut, failed, combined, results >>

\* A faulty variant: an empty list concatenates to an empty table.
ConcatSilent ==
    /\ pc = "parse"
    /\ Range(parsed) = DOMAIN combined
    /\ results' = << [ all_results |-> ConcatFrames(all_summary),
                       stack_counts |-> stack_counts ] >>
    /\ pc' = "done"
    /\ UNCHANGED << q_dir, t_dir, cur, tdone, pairOut, failed, combined, parsed,
                    tabs, sorteds, stacks, stack_files, all_summary, stack_counts >>

\* Lines 121-125, after the loop.  pd.concat of an empty list raises
\* ValueError, which nothing catches; neither global file is written then.
Concat ==
    /\ pc = "parse"
    /\ Range(parsed) = DOMAIN combined
    /\ \/ /\ all_summary = << >>
          /\ pc' = "failed"
          /\ UNCHANGED results
       \/ /\ all_summary # << >>
          /\ results' = << [ all_results |-> ConcatFrames(all_summary),
                             stack_counts |-> stack_counts ] >>
          /\ pc' = "done"
    /\ UNCHANGED << q_dir, t_dir, cur, tdone, pairOut, failed, combined, parsed,
                    tabs, sorteds, stacks, stack_files, all_summary, stack_counts >>

\* ------------------------------------------------------------ specifications
Next ==
    \/ \E q \in q_dir : NextQuery(q)
    \/ \E q \in q_dir, t \in t_dir : Invoke(q, t)
    \/ \E q \in q_dir : Cat(q)
    \/ CallParse
    \/ \E q \in q_dir : ParseFile(q)
    \/ Concat

Spec == Init /\ [][Next]_vars

\* parse_and_save entered with c-tm/all holding no file or one file of a given
\* text.
InitParse(texts) ==
    /\ q_dir \in { {}, {1} }
    /\ t_dir = {}
    /\ pc = "parse"
    /\ cur = 0
    /\ tdone = {}
    /\ pairOut = NoFiles
    /\ failed = {}
    /\ combined \in IF q_dir = {} THEN { NoFiles } ELSE { 1 :> text : text \in texts }
    /\ parsed = << >>
    /\ tabs = NoFiles
    /\ sorteds = NoFiles
    /\ stacks = NoFiles
    /\ stack_files = NoFiles
    /\ all_summary = << >>
    /\ stack_counts = << >>
    /\ results = << >>

NextParse ==
    \/ \E q \in q_dir : ParseFile(q)
    \/ Concat

Strings(alphabet, n) == UNION { [1..k -> alphabet] : k \in 0..n }

\* Any text of banner material, line ends and name lines.
SplitAlphabet == { "*", KwTMalign, "\n", KwName2 }

InitSplit == InitParse(Strings(SplitAlphabet, MaxTextLen))

SpecSplit == InitSplit /\ [][NextParse]_vars

\* One block whose two TM-score lines hold any strings [\d\.]* can capture.
ScoreAlphabet == { "0", "6", "." }

ScoreText(s1, s2) ==
    << "*", KwTMalign, "*", "\n",
       KwTMscore, " " >> \o s1 \o << " ", KwIfNorm1, ")", "\n",
       KwTMscore, " " >> \o s2 \o << " ", KwIfNorm2, ")", "\n" >>

InitScore ==
    InitParse({ ScoreText(s1, s2) : s1, s2 \in Strings(ScoreAlphabet, MaxScoreLen) })

SpecScore == InitScore /\ [][NextParse]_vars

\* ------------------------------------------------------------------- claims
Count(seq, r) == Cardinality({ i \in 1..Len(seq) : seq[i] = r })

\* float(s) or 0.0, value by value.
ValueOrZero(s) == IF s # << >> /\ FloatOk(s) THEN FloatOf(s) ELSE 0

\* C1: in every record, chosen is the larger of TM1 and TM2, each taken as 0.0
\* on its own when it is absent or does not parse.
C1_ChosenPerValue ==
    \A q \in DOMAIN tabs : \A i \in 1..Len(tabs[q]) :
        tabs[q][i].chosen
            = Max(ValueOrZero(tabs[q][i].TM1), ValueOrZero(tabs[q][i].TM2))

\* The stable sort by chosen, descending: each row goes after the rows already
\* placed whose chosen is at least its own.
RECURSIVE StableSorted(_)
StableSorted(df) ==
    IF df = << >> THEN << >>
    ELSE LET front == StableSorted(SubSeq(df, 1, Len(df) - 1))
             r == df[Len(df)]
             k == Cardinality({ i \in 1..Len(front) : front[i].chosen >= r.chosen })
         IN  SubSeq(front, 1, k) \o << r >> \o SubSeq(front, k + 1, Len(front))

\* C2: every sorted table is its per-query table ordered by chosen descending,
\* rows of equal chosen in the order they have in the per-query table.
C2_SortStable ==
    \A q \in DOMAIN sorteds : sorteds[q] = StableSorted(tabs[q])

\* C3: a record of a sorted table is in the query's stack table if and only if
\* its chosen is at least 0.6, 0.6 included: every record occurs in the stack
\* as often as in the sorted table if 10 * chosen >= 6, and not at all if not.
C3_StackIffAtLeastThreshold ==
    \A q \in DOMAIN sorteds :
        /\ \A r \in Range(stacks[q]) : r \in Range(sorteds[q])
        /\ \A r \in Range(sorteds[q]) :
               Count(stacks[q], r)
                   = IF 10 * r.chosen >= 6 * Scale THEN Count(sorteds[q], r) ELSE 0

C3_Witness ==
    \E q \in DOMAIN sorteds :
        /\ \E r \in Range(stacks[q]) : 10 * r.chosen = 6 * Scale
        /\ \E r \in Range(sorteds[q]) : 10 * r.chosen < 6 * Scale /\ r \notin Range(stacks[q])

NoDirectory(name) ==
    \A k \in 1..Len(name) : name[k] \notin { "/", KwSeqId }

\* C4: in every record the query identifier and the template identifier are
\* bare file names, with no directory component.
C4_BareFilenames ==
    \A q \in DOMAIN tabs : \A i \in 1..Len(tabs[q]) :
        NoDirectory(tabs[q][i].query) /\ NoDirectory(tabs[q][i].template)

\* C5: with no per-query combined file the run never completes normally and
\* writes neither global file; where parse_and_save has gone through its
\* (empty) loop, the one step left is the concatenation, and it fails.
C5_ZeroFilesFail ==
    (pc # "main" /\ DOMAIN combined = {}) =>
        /\ pc \in { "parse", "failed" }
        /\ results = << >>
        /\ pc = "parse" => ENABLED Concat /\ ~ENABLED (\E q \in q_dir : ParseFile(q))

C5_Witness == pc = "failed" /\ DOMAIN combined = {} /\ results = << >>

AllParsed == pc \in { "parse", "done" } /\ Range(parsed) = DOMAIN combined

RECURSIVE SumLen(_)
SumLen(frames) ==
    IF frames = << >> THEN 0 ELSE Len(frames[1]) + SumLen(Tail(frames))

\* The parts of C6 that do not depend on how the registry is keyed: one entry
\* per processed file, in processing order, its count the size of that query's
\* stack table; a query with no block has count 0, adds no row to the global
\* summary, and the run with it completes.
CountsBody ==
    /\ Len(stack_counts) = Cardinality(DOMAIN combined)
    /\ Len(stack_counts) = Len(parsed)
    /\ \A i \in 1..Len(parsed) :
           /\ stack_counts[i][2] = Len(stacks[parsed[i]])
           /\ tabs[parsed[i]] = << >> => stack_counts[i][2] = 0
    /\ \A i, j \in 1..Len(stack_counts) :
           stack_counts[i][1] = stack_counts[j][1] => i = j
    /\ pc = "done" =>
           /\ results[1].stack_counts = stack_counts
           /\ Len(results[1].all_results) = SumLen([ i \in 1..Len(parsed) |-> tabs[parsed[i]] ])
    /\ DOMAIN combined # {} => ENABLED Concat \/ pc = "done"

RECURSIVE Banners(_, _)
Banners(text, pos) ==
    IF \A j \in pos..Len(text) : BannerEnd(text, j) = 0 THEN << >>
    ELSE LET i == CHOOSE j \in pos..Len(text) :
                      /\ BannerEnd(text, j) # 0
                      /\ \A k \in pos..(j - 1) : BannerEnd(text, k) = 0
         IN  << << i, BannerEnd(text, i) >> >> \o Banners(text, BannerEnd(text, i))

\* C7: the per-query table has one record per banner occurrence of the text,
\* in their order: record k is what the text from the end of banner k to the
\* start of banner k + 1 (the end of the text for the last) yields; nothing
\* comes of the text before the first banner, and no banner gives no record.
C7_OneRecordPerBanner ==
    \A q \in DOMAIN tabs :
        LET text == combined[q]
            occ == Banners(text, 1)
        IN  /\ Len(tabs[q]) = Len(occ)
            /\ \A k \in 1..Len(occ) :
                   tabs[q][k] =
                       Extract(<< QStems[q] >>,
                               SubSeq(text, occ[k][2],
                                      IF k < Len(occ) THEN occ[k + 1][1] - 1
                                      ELSE Len(text)))

C7_Witness ==
    \E q \in DOMAIN tabs :
        /\ Len(tabs[q]) = 2
        /\ tabs[q][1].template # tabs[q][2].template
        /\ Len(Banners(combined[q], 1)) = 2

TemplateIdOf(t) == TemplPath(t) \o << ".pdb" >>

\* C8: failed invocations go unnoticed.  Whatever pairs have failed, the run
\* can go on until main calls parse_and_save, by when every pair has been
\* invoked and every query concatenated; the run fails only for want of any
\* per-query file; and a record that comes of a failed pair's output has
\* empty fields and chosen 0.0.
C8_FailuresUndetected ==
    /\ pc = "main" => ENABLED Next
    /\ pc # "main" =>
           /\ DOMAIN pairOut = q_dir \X t_dir
           /\ DOMAIN combined = q_dir
    /\ pc = "failed" => DOMAIN combined = {}
    /\ \A p \in failed : p[1] \in DOMAIN tabs =>
           \A i \in 1..Len(tabs[p[1]]) :
               tabs[p[1]][i].template = TemplateIdOf(p[2]) =>
                   /\ tabs[p[1]][i].TM1 = << >>
                   /\ tabs[p[1]][i].TM2 = << >>
                   /\ tabs[p[1]][i].qlen = << >>
                   /\ tabs[p[1]][i].RMSD = << >>
                   /\ tabs[p[1]][i].chosen = 0

C8_Witness ==
    /\ pc = "done"
    /\ \E p \in failed : pairOut[p] = << >>
    /\ \E p \in failed :
           /\ pairOut[p] # << >>
           /\ \E i \in 1..Len(tabs[p[1]]) : tabs[p[1]][i].template = TemplateIdOf(p[2])
    /\ \E p \in (q_dir \X t_dir) \ failed : TRUE

\* C9: the invocations of a query all come before its concatenation (a query
\* that is concatenated has all its per-pair files), a query is invoked only
\* once every query begun before it is concatenated (the pairs invoked belong
\* to concatenated queries or to the one query in progress), and no file is
\* parsed, nor parse_and_save entered, before every pair is invoked and every
\* query concatenated.
C9_Sequential ==
    /\ \A q \in DOMAIN combined : \A t \in t_dir : << q, t >> \in DOMAIN pairOut
    /\ \A p \in DOMAIN pairOut : p[1] \in DOMAIN combined \/ p[1] = cur
    /\ \A q \in DOMAIN combined : q # cur
    /\ (pc # "main" \/ parsed # << >>) =>
           /\ DOMAIN pairOut = q_dir \X t_dir
           /\ DOMAIN combined = q_dir
           /\ cur = 0

C9_Witness ==
    /\ pc = "done"
    /\ Cardinality(q_dir) >= 2
    /\ Cardinality(t_dir) >= 2
    /\ Len(parsed) >= 2

\* C10: the stack table of a query is the first k records of its sorted table,
\* in the same order, k being the count the registry holds for the query, and
\* every later record of the sorted table has chosen below 0.6.
C10_StackIsPrefix ==
    \A i \in 1..Len(parsed) :
        LET q == parsed[i]
            k == stack_counts[i][2]
        IN  /\ k <= Len(sorteds[q])
            /\ stacks[q] = SubSeq(sorteds[q], 1, k)
            /\ \A j \in (k + 1)..Len(sorteds[q]) : 10 * sorteds[q][j].chosen < 6 * Scale
            /\ k > 0 => q \in DOMAIN stack_files /\ stack_files[q] = stacks[q]
            /\ k = 0 => q \notin DOMAIN stack_files

C10_Witness ==
    \E i \in 1..Len(parsed) :
        /\ stack_counts[i][2] > 0
        /\ stack_counts[i][2] < Len(sorteds[parsed[i]])
        /\ tabs[parsed[i]] # sorteds[parsed[i]]

====
